---------------------------- MODULE Spec2Model ----------------------------
(***************************************************************************)
(* LocalHighlightRegistry (src/main.ts): several registries, each with a   *)
(* private Map<string, Set<Range>> (#ranges), layered over the one global  *)
(* CSS.highlights registry, which other code may also use directly.        *)
(*                                                                         *)
(* A JS Map is modelled as the sequence of its entries in insertion order, *)
(* a JS Set as the sequence of its members in insertion order (both        *)
(* without duplicates), a Range object by its identity (a number), a       *)
(* highlight name by a number.  A Highlight is a set of ranges with a      *)
(* priority; its iteration order is never observed by the code.            *)
(***************************************************************************)
EXTENDS Integers, Sequences, FiniteSets, TLC

NumRegistries == 2
NumNames == 2
NumRanges == 2
MaxPriority == 1
MaxCalls == 5

Registries == 1..NumRegistries
Names == 1..NumNames
Ranges == 1..NumRanges
Priorities == 0..MaxPriority

VARIABLES ranges, highlights, last, calls

vars == <<ranges, highlights, last, calls>>

-----------------------------------------------------------------------------
(* JS Set<Range>: insertion-ordered, no duplicates.                        *)

SetHas(set, range) == \E k \in 1..Len(set) : set[k] = range

SetAdd(set, range) == IF SetHas(set, range) THEN set ELSE Append(set, range)

SetDelete(set, range) == SelectSeq(set, LAMBDA x : x # range)

SetMembers(set) == {set[k] : k \in 1..Len(set)}

(* JS Map<string, Set<Range>>: insertion-ordered entries, unique keys.     *)

MapHas(map, name) == \E k \in 1..Len(map) : map[k].name = name

MapIndex(map, name) == CHOOSE k \in 1..Len(map) : map[k].name = name

MapGet(map, name) == map[MapIndex(map, name)].set

MapSet(map, name, set) ==
    IF MapHas(map, name)
    THEN [map EXCEPT ![MapIndex(map, name)].set = set]
    ELSE Append(map, [name |-> name, set |-> set])

MapDelete(map, name) == SelectSeq(map, LAMBDA e : e.name # name)

MapKeys(map) == {map[k].name : k \in 1..Len(map)}

(* CSS.highlights: name -> Highlight; an absent name has exists = FALSE.   *)

NoHighlight == [exists |-> FALSE, set |-> {}, priority |-> 0]

NewHighlight(priority) == [exists |-> TRUE, set |-> {}, priority |-> priority]

(* What a call leaves behind: the registry's map, CSS.highlights, the      *)
(* value returned ("throw" when the call raised) and the console.warn      *)
(* calls it made, in order.                                                *)
Outcome(map, hl, returned, warnings) ==
    [ranges |-> map, highlights |-> hl, returned |-> returned, warnings |-> warnings]

-----------------------------------------------------------------------------
(* add(name, range, priority)                                              *)

(* Variants of add with one plausible slip each.                           *)

(* The range found in CSS.highlights is taken over instead of raising.     *)
addOp_takesOver(map, hl, name, range, priority) ==
    LET absent == ~MapHas(map, name)
        map1 == IF absent THEN MapSet(map, name, <<>>) ELSE map
        set == MapGet(map1, name)
        gh == hl[name]
    IN  IF ~absent /\ SetHas(set, range)
        THEN Outcome(map, hl, "false", <<>>)
        ELSE Outcome(MapSet(map1, name, SetAdd(set, range)),
                     [hl EXCEPT ![name] =
                         [exists |-> TRUE, set |-> gh.set \cup {range},
                          priority |-> IF gh.exists THEN gh.priority
                                                    ELSE priority]],
                     "true", <<>>)

(* CSS.highlights is consulted before the registry's own set.              *)
addOp_globalFirst(map, hl, name, range, priority) ==
    LET absent == ~MapHas(map, name)
        map1 == IF absent THEN MapSet(map, name, <<>>) ELSE map
        set == MapGet(map1, name)
        gh == hl[name]
    IN  IF gh.exists /\ range \in gh.set
        THEN Outcome(map1, hl, "throw", <<>>)
        ELSE IF ~absent /\ SetHas(set, range)
        THEN Outcome(map, hl, "false", <<>>)
        ELSE Outcome(MapSet(map1, name, SetAdd(set, range)),
                     [hl EXCEPT ![name] =
                         [exists |-> TRUE, set |-> gh.set \cup {range},
                          priority |-> IF gh.exists THEN gh.priority
                                                    ELSE priority]],
                     "true",
                     IF gh.exists /\ gh.priority # priority
                     THEN <<"priority">> ELSE <<>>)

(* The priority asked for replaces that of the Highlight found.            *)
addOp_setsPriority(map, hl, name, range, priority) ==
    LET absent == ~MapHas(map, name)
        map1 == IF absent THEN MapSet(map, name, <<>>) ELSE map
        set == MapGet(map1, name)
        gh == hl[name]
    IN  IF ~absent /\ SetHas(set, range)
        THEN Outcome(map, hl, "false", <<>>)
        ELSE IF gh.exists /\ range \in gh.set
        THEN Outcome(map1, hl, "throw", <<>>)
        ELSE Outcome(MapSet(map1, name, SetAdd(set, range)),
                     [hl EXCEPT ![name] =
                         [exists |-> TRUE, set |-> gh.set \cup {range},
                          priority |-> priority]],
                     "true", <<>>)

addOp(map, hl, name, range, priority) ==
    LET absent == ~MapHas(map, name)
        map1 == IF absent THEN MapSet(map, name, <<>>) ELSE map
        set == MapGet(map1, name)
        gh == hl[name]
    IN  IF ~absent /\ SetHas(set, range)
        THEN Outcome(map, hl, "false", <<>>)
        ELSE IF ~gh.exists
        THEN Outcome(MapSet(map1, name, SetAdd(set, range)),
                     [hl EXCEPT ![name] =
                         [NewHighlight(priority) EXCEPT !.set = {range}]],
                     "true", <<>>)
        ELSE IF range \in gh.set
        THEN Outcome(map1, hl, "throw", <<>>)
        ELSE Outcome(MapSet(map1, name, SetAdd(set, range)),
                     [hl EXCEPT ![name].set = gh.set \cup {range}],
                     "true",
                     IF gh.priority # priority THEN <<"priority">> ELSE <<>>)

(* has(name, range)                                                        *)

hasOp(map, name, range) ==
    IF ~MapHas(map, name) THEN FALSE ELSE SetHas(MapGet(map, name), range)

(* delete(name, range)                                                     *)

(* Variants of delete with one plausible slip each.                        *)

(* The registry's own set is updated only when CSS.highlights had the      *)
(* range.                                                                  *)
deleteOp_keepsLocal(map, hl, name, range) ==
    IF ~MapHas(map, name) \/ ~SetHas(MapGet(map, name), range)
    THEN Outcome(map, hl, "false", <<>>)
    ELSE LET set1 == SetDelete(MapGet(map, name), range)
             map1 == IF Len(set1) = 0 THEN MapDelete(map, name)
                                      ELSE MapSet(map, name, set1)
             gh == hl[name]
         IN  IF ~gh.exists \/ range \notin gh.set
             THEN Outcome(map, hl, "true", <<"deleted">>)
             ELSE Outcome(map1, [hl EXCEPT ![name].set = gh.set \ {range}],
                          "true", <<>>)

(* The range is taken out of CSS.highlights before ownership is checked.   *)
deleteOp_unowned(map, hl, name, range) ==
    LET gh == hl[name]
        hl1 == [hl EXCEPT ![name].set = gh.set \ {range}]
    IN  IF ~MapHas(map, name) \/ ~SetHas(MapGet(map, name), range)
        THEN Outcome(map, hl1, "false", <<>>)
        ELSE LET set1 == SetDelete(MapGet(map, name), range)
                 map1 == IF Len(set1) = 0 THEN MapDelete(map, name)
                                          ELSE MapSet(map, name, set1)
             IN  Outcome(map1, hl1, "true",
                         IF range \notin gh.set THEN <<"deleted">> ELSE <<>>)

(* The value returned is that of Highlight.delete.                         *)
deleteOp_returnsGlobal(map, hl, name, range) ==
    IF ~MapHas(map, name) \/ ~SetHas(MapGet(map, name), range)
    THEN Outcome(map, hl, "false", <<>>)
    ELSE LET set1 == SetDelete(MapGet(map, name), range)
             map1 == IF Len(set1) = 0 THEN MapDelete(map, name)
                                      ELSE MapSet(map, name, set1)
             gh == hl[name]
         IN  IF ~gh.exists \/ range \notin gh.set
             THEN Outcome(map1, hl, "false", <<"deleted">>)
             ELSE Outcome(map1, [hl EXCEPT ![name].set = gh.set \ {range}],
                          "true", <<>>)

(* A range missing from CSS.highlights is an error instead of a warning.   *)
deleteOp_throwsOnMissing(map, hl, name, range) ==
    IF ~MapHas(map, name) \/ ~SetHas(MapGet(map, name), range)
    THEN Outcome(map, hl, "false", <<>>)
    ELSE LET set1 == SetDelete(MapGet(map, name), range)
             map1 == IF Len(set1) = 0 THEN MapDelete(map, name)
                                      ELSE MapSet(map, name, set1)
             gh == hl[name]
         IN  IF ~gh.exists \/ range \notin gh.set
             THEN Outcome(map1, hl, "throw", <<>>)
             ELSE Outcome(map1, [hl EXCEPT ![name].set = gh.set \ {range}],
                          "true", <<>>)

(* The warning is given only when the Highlight is there but lacks the     *)
(* range, not when the Highlight itself is gone.                           *)
deleteOp_silentOnMissingHighlight(map, hl, name, range) ==
    IF ~MapHas(map, name) \/ ~SetHas(MapGet(map, name), range)
    THEN Outcome(map, hl, "false", <<>>)
    ELSE LET set1 == SetDelete(MapGet(map, name), range)
             map1 == IF Len(set1) = 0 THEN MapDelete(map, name)
                                      ELSE MapSet(map, name, set1)
             gh == hl[name]
         IN  IF ~gh.exists
             THEN Outcome(map1, hl, "true", <<>>)
             ELSE IF range \notin gh.set
             THEN Outcome(map1, hl, "true", <<"deleted">>)
             ELSE Outcome(map1, [hl EXCEPT ![name].set = gh.set \ {range}],
                          "true", <<>>)

(* A Highlight left empty is taken out of CSS.highlights.                  *)
deleteOp_prunesHighlight(map, hl, name, range) ==
    IF ~MapHas(map, name) \/ ~SetHas(MapGet(map, name), range)
    THEN Outcome(map, hl, "false", <<>>)
    ELSE LET set1 == SetDelete(MapGet(map, name), range)
             map1 == IF Len(set1) = 0 THEN MapDelete(map, name)
                                      ELSE MapSet(map, name, set1)
             gh == hl[name]
         IN  IF ~gh.exists \/ range \notin gh.set
             THEN Outcome(map1, hl, "true", <<"deleted">>)
             ELSE Outcome(map1,
                          [hl EXCEPT ![name] =
                              IF gh.set = {range} THEN NoHighlight
                              ELSE [gh EXCEPT !.set = gh.set \ {range}]],
                          "true", <<>>)

deleteOp(map, hl, name, range) ==
    IF ~MapHas(map, name) \/ ~SetHas(MapGet(map, name), range)
    THEN Outcome(map, hl, "false", <<>>)
    ELSE LET set1 == SetDelete(MapGet(map, name), range)
             map1 == IF Len(set1) = 0 THEN MapDelete(map, name)
                                      ELSE MapSet(map, name, set1)
             gh == hl[name]
         IN  IF ~gh.exists \/ range \notin gh.set
             THEN Outcome(map1, hl, "true", <<"deleted">>)
             ELSE Outcome(map1, [hl EXCEPT ![name].set = gh.set \ {range}],
                          "true", <<>>)

(* deleteAll(name): the loop over the registry's set; each iteration       *)
(* overwrites warn with the outcome of that one Highlight.delete.          *)

RECURSIVE deleteAllLoop(_, _, _, _)
deleteAllLoop(set, k, members, warn) ==
    IF k > Len(set)
    THEN [members |-> members, warn |-> warn]
    ELSE deleteAllLoop(set, k + 1, members \ {set[k]}, ~(set[k] \in members))

(* Variants of deleteAll with one plausible slip each.                     *)

(* The whole Highlight is emptied instead of the registry's own ranges.    *)
deleteAllOp_emptiesHighlight(map, hl, name) ==
    IF ~MapHas(map, name)
    THEN Outcome(map, hl, "false", <<>>)
    ELSE LET set == MapGet(map, name)
             gh == hl[name]
             warn == ~gh.exists \/ ~(SetMembers(set) \subseteq gh.set)
         IN  Outcome(MapDelete(map, name),
                     [hl EXCEPT ![name].set = {}],
                     "true",
                     IF warn THEN <<"deletedAll">> ELSE <<>>)

(* A missing Highlight ends the call after the warning, before the         *)
(* registry's entry is dropped.                                            *)
deleteAllOp_keepsOnMissing(map, hl, name) ==
    IF ~MapHas(map, name)
    THEN Outcome(map, hl, "false", <<>>)
    ELSE LET set == MapGet(map, name)
             gh == hl[name]
         IN  IF ~gh.exists
             THEN Outcome(map, hl, "false", <<"deletedAll">>)
             ELSE Outcome(MapDelete(map, name),
                          [hl EXCEPT ![name].set = gh.set \ SetMembers(set)],
                          "true",
                          IF Len(set) > 0 /\ set[Len(set)] \notin gh.set
                          THEN <<"deletedAll">> ELSE <<>>)

deleteAllOp(map, hl, name) ==
    IF ~MapHas(map, name)
    THEN Outcome(map, hl, "false", <<>>)
    ELSE LET set == MapGet(map, name)
             gh == hl[name]
             loop == IF ~gh.exists
                     THEN [members |-> gh.set, warn |-> TRUE]
                     ELSE deleteAllLoop(set, 1, gh.set, FALSE)
         IN  Outcome(MapDelete(map, name),
                     [hl EXCEPT ![name].set = loop.members],
                     "true",
                     IF loop.warn THEN <<"deletedAll">> ELSE <<>>)

(* clear(): walks the live key iterator of #ranges.  A Map iterator keeps  *)
(* its position in the entry list as it was when the walk began (deleted   *)
(* entries are left as holes), so it visits position k of that list if     *)
(* the key there has not been deleted meanwhile.                           *)

RECURSIVE clearLoop(_, _, _, _, _, _)
clearLoop(entries, k, map, hl, warnings, visited) ==
    IF k > Len(entries)
    THEN [ranges |-> map, highlights |-> hl, returned |-> "undefined",
          warnings |-> warnings, visited |-> visited]
    ELSE IF ~MapHas(map, entries[k].name)
    THEN clearLoop(entries, k + 1, map, hl, warnings, visited)
    ELSE LET o == deleteAllOp(map, hl, entries[k].name)
         IN  clearLoop(entries, k + 1, o.ranges, o.highlights,
                       warnings \o o.warnings, Append(visited, entries[k].name))

(* Variant of clear: the walk keeps a position into the shrinking entry   *)
(* list itself, so every deletion makes it step over the next entry.       *)
RECURSIVE clearLoop_skips(_, _, _, _, _)
clearLoop_skips(k, map, hl, warnings, visited) ==
    IF k > Len(map)
    THEN [ranges |-> map, highlights |-> hl, returned |-> "undefined",
          warnings |-> warnings, visited |-> visited]
    ELSE LET o == deleteAllOp(map, hl, map[k].name)
         IN  clearLoop_skips(k + 1, o.ranges, o.highlights,
                             warnings \o o.warnings, Append(visited, map[k].name))

clearOp_skips(map, hl) == clearLoop_skips(1, map, hl, <<>>, <<>>)

clearOp(map, hl) == clearLoop(map, 1, map, hl, <<>>, <<>>)

-----------------------------------------------------------------------------
(* The last call made: which method, on which registry, its arguments      *)
(* (0 where the method has none), what it returned, its warnings, for      *)
(* clear() the names it passed to deleteAll, in order, and the (name,      *)
(* range) pairs its Highlight.delete calls took out of CSS.highlights.     *)

Call(op, r, name, range, priority, returned, warnings, visited, removed) ==
    [op |-> op, registry |-> r, name |-> name, range |-> range,
     priority |-> priority, returned |-> returned, warnings |-> warnings,
     visited |-> visited, removed |-> removed]

Removed(hl, hl1) ==
    {<<name, range>> \in Names \X Ranges :
        range \in hl[name].set /\ range \notin hl1[name].set}

Init ==
    /\ ranges = [r \in Registries |-> <<>>]
    /\ highlights = [n \in Names |-> NoHighlight]
    /\ last = Call("new", 0, 0, 0, 0, "undefined", <<>>, <<>>, {})
    /\ calls = 0

add(r, name, range, priority) ==
    /\ calls < MaxCalls
    /\ LET o == addOp(ranges[r], highlights, name, range, priority)
       IN  /\ ranges' = [ranges EXCEPT ![r] = o.ranges]
           /\ highlights' = o.highlights
           /\ last' = Call("add", r, name, range, priority, o.returned,
                           o.warnings, <<>>, Removed(highlights, o.highlights))
    /\ calls' = calls + 1

(* Variant of has: a range counts only while CSS.highlights holds it.      *)
has_consultsHighlights(r, name, range) ==
    /\ calls < MaxCalls
    /\ last' = Call("has", r, name, range, 0,
                    IF hasOp(ranges[r], name, range) /\ range \in highlights[name].set
                    THEN "true" ELSE "false",
                    <<>>, <<>>, {})
    /\ calls' = calls + 1
    /\ UNCHANGED <<ranges, highlights>>

has(r, name, range) ==
    /\ calls < MaxCalls
    /\ last' = Call("has", r, name, range, 0,
                    IF hasOp(ranges[r], name, range) THEN "true" ELSE "false",
                    <<>>, <<>>, {})
    /\ calls' = calls + 1
    /\ UNCHANGED <<ranges, highlights>>

delete(r, name, range) ==
    /\ calls < MaxCalls
    /\ LET o == deleteOp(ranges[r], highlights, name, range)
       IN  /\ ranges' = [ranges EXCEPT ![r] = o.ranges]
           /\ highlights' = o.highlights
           /\ last' = Call("delete", r, name, range, 0, o.returned,
                           o.warnings, <<>>, Removed(highlights, o.highlights))
    /\ calls' = calls + 1

deleteAll(r, name) ==
    /\ calls < MaxCalls
    /\ LET o == deleteAllOp(ranges[r], highlights, name)
       IN  /\ ranges' = [ranges EXCEPT ![r] = o.ranges]
           /\ highlights' = o.highlights
           /\ last' = Call("deleteAll", r, name, 0, 0, o.returned,
                           o.warnings, <<>>, Removed(highlights, o.highlights))
    /\ calls' = calls + 1

clear(r) ==
    /\ calls < MaxCalls
    /\ LET o == clearOp(ranges[r], highlights)
       IN  /\ ranges' = [ranges EXCEPT ![r] = o.ranges]
           /\ highlights' = o.highlights
           /\ last' = Call("clear", r, 0, 0, 0, o.returned, o.warnings,
                           o.visited, Removed(highlights, o.highlights))
    /\ calls' = calls + 1

(* Direct usage of CSS.highlights by code outside every registry: adding   *)
(* a range to a highlight (creating it when absent), deleting a range      *)
(* from a highlight, deleting a whole highlight.                           *)

externalAdd(name, range, priority) ==
    /\ calls < MaxCalls
    /\ range \notin highlights[name].set
    /\ highlights[name].exists => priority = highlights[name].priority
    /\ highlights' = [highlights EXCEPT ![name] =
           [exists |-> TRUE, set |-> @.set \cup {range}, priority |-> priority]]
    /\ last' = Call("externalAdd", 0, name, range, priority, "undefined",
                    <<>>, <<>>, {})
    /\ calls' = calls + 1
    /\ UNCHANGED ranges

externalDelete(name, range) ==
    /\ calls < MaxCalls
    /\ range \in highlights[name].set
    /\ highlights' = [highlights EXCEPT ![name].set = @ \ {range}]
    /\ last' = Call("externalDelete", 0, name, range, 0, "undefined",
                    <<>>, <<>>, {})
    /\ calls' = calls + 1
    /\ UNCHANGED ranges

externalDeleteHighlight(name) ==
    /\ calls < MaxCalls
    /\ highlights[name].exists
    /\ highlights' = [highlights EXCEPT ![name] = NoHighlight]
    /\ last' = Call("externalDeleteHighlight", 0, name, 0, 0, "undefined",
                    <<>>, <<>>, {})
    /\ calls' = calls + 1
    /\ UNCHANGED ranges

Next ==
    \/ \E r \in Registries, name \in Names, range \in Ranges, p \in Priorities :
           add(r, name, range, p)
    \/ \E r \in Registries, name \in Names, range \in Ranges :
           has(r, name, range)
    \/ \E r \in Registries, name \in Names, range \in Ranges :
           delete(r, name, range)
    \/ \E r \in Registries, name \in Names : deleteAll(r, name)
    \/ \E r \in Registries : clear(r)
    \/ \E name \in Names, range \in Ranges, p \in Priorities :
           externalAdd(name, range, p)
    \/ \E name \in Names, range \in Ranges : externalDelete(name, range)
    \/ \E name \in Names : externalDeleteHighlight(name)

Spec == Init /\ [][Next]_vars

(* The registries alone: no code outside them touches CSS.highlights.      *)
RegistryNext ==
    \/ \E r \in Registries, name \in Names, range \in Ranges, p \in Priorities :
           add(r, name, range, p)
    \/ \E r \in Registries, name \in Names, range \in Ranges :
           has(r, name, range)
    \/ \E r \in Registries, name \in Names, range \in Ranges :
           delete(r, name, range)
    \/ \E r \in Registries, name \in Names : deleteAll(r, name)
    \/ \E r \in Registries : clear(r)

SpecRegistriesOnly == Init /\ [][RegistryNext]_vars

-----------------------------------------------------------------------------
(* What a registry owns under a name, and the steps of each method.        *)

Owned(map, name) == IF MapHas(map, name) THEN SetMembers(MapGet(map, name)) ELSE {}

Occurrences(map, name, range) ==
    IF MapHas(map, name)
    THEN Cardinality({k \in 1..Len(MapGet(map, name)) : MapGet(map, name)[k] = range})
    ELSE 0

AddStep(r, name, range) ==
    /\ last'.op = "add" /\ last'.registry = r
    /\ last'.name = name /\ last'.range = range

DeleteStep(r, name, range) ==
    /\ last'.op = "delete" /\ last'.registry = r
    /\ last'.name = name /\ last'.range = range

DeleteAllStep(r, name) ==
    last'.op = "deleteAll" /\ last'.registry = r /\ last'.name = name

ClearStep(r) == last'.op = "clear" /\ last'.registry = r

-----------------------------------------------------------------------------
(* C1 as stated: whenever registry a owns s1 under name and another        *)
(* registry b owns a different range s2 under name, b.deleteAll(name)      *)
(* takes s2 out of the Highlight, leaves s1 in it (if it was there),       *)
(* leaves a's map unchanged and a.has(name, s1) true.                      *)
C1_AsStated ==
    [][\A a \in Registries, b \in Registries, name \in Names :
         (a # b /\ DeleteAllStep(b, name)) =>
             \A s1 \in Owned(ranges[a], name), s2 \in Owned(ranges[b], name) :
                 s1 # s2 =>
                     /\ s2 \notin highlights'[name].set
                     /\ s1 \in highlights[name].set => s1 \in highlights'[name].set
                     /\ ranges'[a] = ranges[a]
                     /\ hasOp(ranges'[a], name, s1)]_vars

(* C1, amended: the same, for every s1 that b does not itself own under    *)
(* name (b can come to own a's range after code outside the registries     *)
(* deleted it from the Highlight).                                         *)
C1_Isolation ==
    [][\A a \in Registries, b \in Registries, name \in Names :
         (a # b /\ DeleteAllStep(b, name)) =>
             \A s1 \in Owned(ranges[a], name), s2 \in Owned(ranges[b], name) :
                 (s1 # s2 /\ s1 \notin Owned(ranges[b], name)) =>
                     /\ s2 \notin highlights'[name].set
                     /\ s1 \in highlights[name].set => s1 \in highlights'[name].set
                     /\ ranges'[a] = ranges[a]
                     /\ hasOp(ranges'[a], name, s1)]_vars

(* b.deleteAll(name) has just taken a range of its own out of the          *)
(* Highlight, and another registry's range is still in it.                 *)
C1_Witness ==
    /\ last.op = "deleteAll" /\ last.returned = "true"
    /\ \E s2 \in Ranges : <<last.name, s2>> \in last.removed
    /\ \E a \in Registries \ {last.registry} :
           \E s1 \in Owned(ranges[a], last.name) :
               s1 \in highlights[last.name].set

(* C2: an add of a pair the registry does not own, while the Highlight of  *)
(* that name already holds the range, raises.                              *)
C2_CollisionThrows ==
    [][\A r \in Registries, name \in Names, range \in Ranges :
         (/\ AddStep(r, name, range)
          /\ ~hasOp(ranges[r], name, range)
          /\ range \in highlights[name].set) => last'.returned = "throw"]_vars

(* A second registry's add of a range the first one owns has raised.       *)
C2_Witness ==
    /\ last.op = "add" /\ last.returned = "throw"
    /\ \E a \in Registries \ {last.registry} :
           hasOp(ranges[a], last.name, last.range)

(* C3: right after an add that returned true, has is true; right after a   *)
(* delete, has is false, whatever CSS.highlights holds.                    *)
C3_HasAfterAddDelete ==
    [][\A r \in Registries, name \in Names, range \in Ranges :
         /\ (AddStep(r, name, range) /\ last'.returned = "true")
                => hasOp(ranges'[r], name, range)
         /\ DeleteStep(r, name, range) => ~hasOp(ranges'[r], name, range)]_vars

(* A delete of an owned range whose Highlight was still there but had      *)
(* lost the range.                                                         *)
C3_Witness ==
    /\ last.op = "delete" /\ last.returned = "true"
    /\ last.warnings = <<"deleted">>
    /\ highlights[last.name].exists
    /\ ~hasOp(ranges[last.registry], last.name, last.range)

(* C4: an add of a pair the registry already owns returns false, whatever  *)
(* the priority, does not raise, and changes neither the registry's map    *)
(* nor CSS.highlights; the range stays recorded exactly once.              *)
C4_AddRepeat ==
    [][\A r \in Registries, name \in Names, range \in Ranges :
         (AddStep(r, name, range) /\ hasOp(ranges[r], name, range)) =>
             /\ last'.returned = "false"
             /\ last'.warnings = <<>>
             /\ ranges' = ranges
             /\ highlights' = highlights
             /\ Occurrences(ranges'[r], name, range) = 1]_vars

(* A repeated add, with a priority other than the Highlight's, of a range  *)
(* that is in the Highlight.                                               *)
C4_Witness ==
    /\ last.op = "add" /\ last.returned = "false"
    /\ last.range \in highlights[last.name].set
    /\ last.priority # highlights[last.name].priority
    /\ Occurrences(ranges[last.registry], last.name, last.range) = 1

(* C5: clear() calls deleteAll once for every name that was a key of the   *)
(* registry's map when it began, and leaves the map empty: none of the     *)
(* ranges the registry owned is left in the Highlight of its name, and     *)
(* has is false for each of them.                                          *)
C5_Clear ==
    [][\A r \in Registries :
         ClearStep(r) =>
             /\ Len(last'.visited) = Len(ranges[r])
             /\ \A k \in 1..Len(ranges[r]) : last'.visited[k] = ranges[r][k].name
             /\ ranges'[r] = <<>>
             /\ \A name \in Names : \A range \in Owned(ranges[r], name) :
                    /\ range \notin highlights'[name].set
                    /\ ~hasOp(ranges'[r], name, range)]_vars

(* A clear() of a registry that had two names, with ranges under both      *)
(* taken out of CSS.highlights.                                            *)
C5_Witness ==
    /\ last.op = "clear" /\ Len(last.visited) = 2
    /\ \E n1 \in Names, n2 \in Names, s1 \in Ranges, s2 \in Ranges :
           n1 # n2 /\ <<n1, s1>> \in last.removed /\ <<n2, s2>> \in last.removed
    /\ ranges[last.registry] = <<>>

(* C6 as stated: deleteAll(name) on a registry that owns no range under   *)
(* name returns false and leaves CSS.highlights as it was.                 *)
C6_AsStated ==
    [][\A r \in Registries, name \in Names :
         (DeleteAllStep(r, name) /\ Owned(ranges[r], name) = {}) =>
             /\ last'.returned = "false"
             /\ highlights' = highlights]_vars

(* C7: delete of a pair the registry does not own returns false, warns     *)
(* of nothing and changes no registry's map and no Highlight.              *)
C7_DeleteUnowned ==
    [][\A r \in Registries, name \in Names, range \in Ranges :
         (DeleteStep(r, name, range) /\ ~hasOp(ranges[r], name, range)) =>
             /\ last'.returned = "false"
             /\ last'.warnings = <<>>
             /\ ranges' = ranges
             /\ highlights' = highlights]_vars

(* A delete that returned false for a range another registry owns and     *)
(* the Highlight holds.                                                    *)
C7_Witness ==
    /\ last.op = "delete" /\ last.returned = "false"
    /\ last.range \in highlights[last.name].set
    /\ \E a \in Registries \ {last.registry} :
           hasOp(ranges[a], last.name, last.range)

(* C8: delete of a pair the registry owns returns true and takes the pair  *)
(* out of the registry's map, whatever CSS.highlights holds.               *)
C8_DeleteOwned ==
    [][\A r \in Registries, name \in Names, range \in Ranges :
         (DeleteStep(r, name, range) /\ hasOp(ranges[r], name, range)) =>
             /\ last'.returned = "true"
             /\ range \notin Owned(ranges'[r], name)]_vars

(* A delete of an owned range that returned true although the whole        *)
(* Highlight of that name was gone.                                        *)
C8_Witness ==
    /\ last.op = "delete" /\ last.returned = "true"
    /\ last.warnings = <<"deleted">>
    /\ ~highlights[last.name].exists

(* C9: deleteAll(name) on a registry that owns a range under name returns  *)
(* true and leaves the registry owning nothing under name, whatever        *)
(* CSS.highlights holds.                                                   *)
C9_DeleteAllOwned ==
    [][\A r \in Registries, name \in Names :
         (DeleteAllStep(r, name) /\ Owned(ranges[r], name) # {}) =>
             /\ last'.returned = "true"
             /\ ~MapHas(ranges'[r], name)
             /\ \A range \in Ranges : ~hasOp(ranges'[r], name, range)]_vars

(* A deleteAll that returned true for a name whose Highlight was gone.     *)
C9_Witness ==
    /\ last.op = "deleteAll" /\ last.returned = "true"
    /\ last.warnings = <<"deletedAll">>
    /\ ~highlights[last.name].exists
    /\ ~MapHas(ranges[last.registry], last.name)

(* C10 as stated: no registry's map holds a name with an empty set.        *)
C10_AsStated ==
    \A r \in Registries : \A k \in 1..Len(ranges[r]) : Len(ranges[r][k].set) > 0

HasStep(r, name, range) ==
    /\ last'.op = "has" /\ last'.registry = r
    /\ last'.name = name /\ last'.range = range

(* C11: an add of a range the registry does not own, under a name whose    *)
(* Highlight exists, lacks the range and has another priority, returns     *)
(* true, puts the range in the registry's map and in the Highlight, warns  *)
(* once of the priority and leaves the Highlight's priority alone; with    *)
(* equal priorities it warns of nothing.                                   *)
C11_PriorityAdvisory ==
    [][\A r \in Registries, name \in Names, range \in Ranges :
         (/\ AddStep(r, name, range)
          /\ ~hasOp(ranges[r], name, range)
          /\ highlights[name].exists
          /\ range \notin highlights[name].set) =>
             /\ last'.returned = "true"
             /\ hasOp(ranges'[r], name, range)
             /\ highlights'[name].set = highlights[name].set \cup {range}
             /\ highlights'[name].priority = highlights[name].priority
             /\ last'.warnings = IF highlights[name].priority # last'.priority
                                 THEN <<"priority">> ELSE <<>>]_vars

(* An add that joined a range to a Highlight holding another one, with a   *)
(* priority other than the Highlight's, and warned.                        *)
C11_Witness ==
    /\ last.op = "add" /\ last.returned = "true"
    /\ last.warnings = <<"priority">>
    /\ highlights[last.name].priority # last.priority
    /\ Cardinality(highlights[last.name].set) >= 2
    /\ last.range \in highlights[last.name].set

(* C12: has changes no registry's map and no Highlight, and returns true   *)
(* exactly when the registry's own map holds the range under the name,     *)
(* whatever CSS.highlights holds.                                          *)
C12_HasLocal ==
    [][\A r \in Registries, name \in Names, range \in Ranges :
         HasStep(r, name, range) =>
             /\ ranges' = ranges
             /\ highlights' = highlights
             /\ last'.returned = "true" <=>
                    \E k \in 1..Len(ranges[r]) :
                        /\ ranges[r][k].name = name
                        /\ \E j \in 1..Len(ranges[r][k].set) :
                               ranges[r][k].set[j] = range
             /\ last'.returned \in {"true", "false"}]_vars

(* has returned true for a range that is no longer in the Highlight.       *)
C12_Witness ==
    /\ last.op = "has" /\ last.returned = "true"
    /\ last.range \notin highlights[last.name].set

(* C13 as stated: deleteAll(name) on a registry that owns ranges under     *)
(* name warns, once, exactly when the Highlight is missing or lacks at     *)
(* least one of the owned ranges, wherever in the set that range is.       *)
C13_AsStated ==
    [][\A r \in Registries, name \in Names :
         (DeleteAllStep(r, name) /\ Owned(ranges[r], name) # {}) =>
             last'.warnings =
                 IF \/ ~highlights[name].exists
                    \/ \E range \in Owned(ranges[r], name) :
                           range \notin highlights[name].set
                 THEN <<"deletedAll">> ELSE <<>>]_vars

(* The pairs a registry owns, and whether two registries own one pair.     *)
OwnedPairs(map) ==
    {<<name, range>> \in Names \X Ranges : range \in Owned(map, name)}

CoOwned(rs, name, range) ==
    \E a \in Registries, b \in Registries :
        a # b /\ hasOp(rs[a], name, range) /\ hasOp(rs[b], name, range)

RegistryOps == {"add", "has", "delete", "deleteAll", "clear"}

C15_AsStated ==
    \A name \in Names, range \in Ranges : ~CoOwned(ranges, name, range)

(* C15, amended: a pair comes to be in the maps of two registries only by  *)
(* an add of that pair made while the Highlight of the name did not hold   *)
(* the range (it had been deleted from it from outside its owner).         *)
C15_ExclusiveUnlessRemoved ==
    [][\A name \in Names, range \in Ranges :
         (CoOwned(ranges', name, range) /\ ~CoOwned(ranges, name, range)) =>
             /\ last'.op = "add" /\ last'.returned = "true"
             /\ last'.name = name /\ last'.range = range
             /\ range \notin highlights[name].set
             /\ \E a \in Registries : hasOp(ranges[a], name, range)]_vars

(* An add has just returned true for a pair another registry owns.         *)
C15_Witness ==
    /\ last.op = "add" /\ last.returned = "true"
    /\ CoOwned(ranges, last.name, last.range)

(* C16: delete, deleteAll and clear on a registry take out of              *)
(* CSS.highlights only pairs that registry's map held, leaving every       *)
(* other member of every Highlight in place; and a registry call puts      *)
(* into CSS.highlights nothing but the range of an add that returned true. *)
C16_RemovalBounded ==
    [][\A r \in Registries :
         (last'.op \in RegistryOps /\ last'.registry = r) =>
             /\ Removed(highlights, highlights') \subseteq OwnedPairs(ranges[r])
             /\ last'.op \in {"add", "has"} => Removed(highlights, highlights') = {}
             /\ Removed(highlights', highlights) \subseteq
                    IF last'.op = "add" /\ last'.returned = "true"
                    THEN {<<last'.name, last'.range>>} ELSE {}]_vars

(* A clear() took a range of its registry out of a Highlight in which a    *)
(* range the registry did not own stays.                                   *)
C16_Witness ==
    /\ last.op = "clear" /\ ranges[last.registry] = <<>>
    /\ \E name \in Names, range \in Ranges, other \in Ranges :
           /\ <<name, range>> \in last.removed
           /\ other \in highlights[name].set

(* C17: a delete of a pair the registry owns warns, once, exactly when     *)
(* the Highlight of the name is missing or lacks the range; otherwise it   *)
(* takes the range out of the Highlight and warns of nothing; it never     *)
(* raises.                                                                 *)
C17_DeleteWarns ==
    [][\A r \in Registries, name \in Names, range \in Ranges :
         (DeleteStep(r, name, range) /\ hasOp(ranges[r], name, range)) =>
             /\ last'.returned # "throw"
             /\ IF ~highlights[name].exists \/ range \notin highlights[name].set
                THEN /\ last'.warnings = <<"deleted">>
                     /\ highlights' = highlights
                ELSE /\ last'.warnings = <<>>
                     /\ highlights' =
                            [highlights EXCEPT ![name].set = @ \ {range}]]_vars

(* A delete of an owned range that found it in the Highlight, took it out  *)
(* and warned of nothing.                                                  *)
C17_Witness ==
    /\ last.op = "delete" /\ last.returned = "true"
    /\ last.warnings = <<>>
    /\ last.removed = {<<last.name, last.range>>}

(* C18 as stated: an add that raises leaves every registry's map and       *)
(* CSS.highlights exactly as they were.                                    *)
C18_AsStated ==
    [][last'.returned = "throw" =>
           /\ ranges' = ranges
           /\ highlights' = highlights]_vars

(* C19: with no code outside the registries touching CSS.highlights, the   *)
(* Highlight of each name holds exactly the ranges the registries own      *)
(* under it, no delete or deleteAll warns of a range deleted elsewhere,    *)
(* and an add raises only for a range some registry owns.                  *)
C19_InSync ==
    /\ \A name \in Names :
           highlights[name].set = UNION {Owned(ranges[r], name) : r \in Registries}
    /\ \A k \in 1..Len(last.warnings) : last.warnings[k] = "priority"
    /\ last.returned = "throw" =>
           \E r \in Registries : hasOp(ranges[r], last.name, last.range)

(* A delete took a registry's range out of a Highlight that still holds    *)
(* another registry's range.                                               *)
C19_Witness ==
    /\ last.op = "delete" /\ last.returned = "true" /\ last.warnings = <<>>
    /\ \E a \in Registries \ {last.registry} :
           /\ Owned(ranges[a], last.name) # {}
           /\ Owned(ranges[a], last.name) \subseteq highlights[last.name].set

(* C20: a registry call creates a Highlight only as an add that finds it   *)
(* absent, with that add's priority; no registry call removes a Highlight  *)
(* or changes its priority, so an add under a name whose Highlight is      *)
(* empty, with another priority, keeps the old priority and warns.         *)
C20_HighlightKept ==
    [][last'.op \in RegistryOps =>
         /\ \A name \in Names :
                /\ highlights[name].exists =>
                       /\ highlights'[name].exists
                       /\ highlights'[name].priority = highlights[name].priority
                /\ (~highlights[name].exists /\ highlights'[name].exists) =>
                       /\ last'.op = "add" /\ last'.returned = "true"
                       /\ last'.name = name
                       /\ highlights'[name].priority = last'.priority
         /\ \A r \in Registries, name \in Names, range \in Ranges :
                (/\ AddStep(r, name, range)
                 /\ ~hasOp(ranges[r], name, range)
                 /\ highlights[name].exists /\ highlights[name].set = {}
                 /\ highlights[name].priority # last'.priority) =>
                    /\ last'.returned = "true"
                    /\ last'.warnings = <<"priority">>
                    /\ highlights'[name].priority = highlights[name].priority]_vars

(* An add into a Highlight that had been left empty, with another          *)
(* priority: the Highlight keeps its priority and the add warned.          *)
C20_Witness ==
    /\ last.op = "add" /\ last.returned = "true"
    /\ last.warnings = <<"priority">>
    /\ highlights[last.name].set = {last.range}
    /\ highlights[last.name].priority # last.priority

=============================================================================
